---- MODULE Spec2Model ----
(***************************************************************************)
(* crabkvs: a log-structured key-value store (src/lib.rs).                 *)
(*                                                                         *)
(* The data directory is modelled at byte accuracy: a segment file is the  *)
(* sequence of the lines appended to it, each line being one serialized    *)
(* Command plus "\n"; byte offsets are sums of line lengths.  File names   *)
(* (N.log) are bound to inodes, so that a BufReader opened on a segment    *)
(* keeps reading that segment's bytes after fs::remove_file unlinked it.   *)
(***************************************************************************)
EXTENDS Integers, Sequences, FiniteSets, TLC

\* ------------------------------------------------------------------ bounds
MaxOps == 4          \* get/set/remove/open calls in one run
MaxTime == 2         \* the millisecond clock runs over 0..MaxTime

\* ------------------------------------------------------- program constants
MAX_SIZE == 4096
COMPACTION_THRESHOLD == 50 * 1024

\* ------------------------------------------------------------------ inputs
Keys == {"a", "b"}
Values == {"s", "m", "B"}

\* byte length of a key / value string (plain ASCII, nothing to escape)
KeyLen(k) == 1
ValueLen(v) == CASE v = "s" -> 1 [] v = "m" -> 1500 [] v = "B" -> 25000 [] OTHER -> 0

\* ------------------------------------------------------------ record codec
\* serde_json::to_string(&Command::Set{..}) is
\*   {"Set":{"key":"K","value":"V","timestamp":T}}
\* and Remove the same with the tag Remove; T is a 13-digit millisecond count.
TimestampDigits == 13
SetOverhead == 42
RemoveOverhead == 45

EntrySize(entry) ==
    (IF entry.tag = "Set" THEN SetOverhead ELSE RemoveOverhead)
        + KeyLen(entry.key) + ValueLen(entry.value) + TimestampDigits

\* A line a crash cut short: the first bytes of a serialized Set, up to the
\* opening of its value, and no '\n'.  Any proper prefix behaves alike: it
\* is not a JSON document.
TornCommand(k, v, t) == [tag |-> "Torn", key |-> k, value |-> v, timestamp |-> t]
TornLen(entry) == SetOverhead + KeyLen(entry.key)

\* one line of a segment: the serialized entry and the '\n' pushed after it
LineLen(entry) == IF entry.tag = "Torn" THEN TornLen(entry) ELSE EntrySize(entry) + 1

SetCommand(k, v, t) == [tag |-> "Set", key |-> k, value |-> v, timestamp |-> t]
RemoveCommand(k, v, t) == [tag |-> "Remove", key |-> k, value |-> v, timestamp |-> t]

\* ------------------------------------------------------------- file system
RECURSIVE FileLen(_)
FileLen(content) ==
    IF content = <<>> THEN 0
    ELSE LineLen(Head(content)) + FileLen(Tail(content))

\* byte offset at which line i of a file starts (i = Len+1: end of file)
LineStart(content, i) == FileLen(SubSeq(content, 1, i - 1))

\* seek(SeekFrom::Start(pos)) then read_line then serde_json::from_str:
\* the entry that starts exactly at pos, or no parse (end of file, or the
\* tail of a line entered in its middle)
NoParse == [tag |-> "NoParse", key |-> "", value |-> "", timestamp |-> 0]

ReadEntryAt(content, pos) ==
    IF \E i \in 1..Len(content) : LineStart(content, i) = pos
    THEN content[CHOOSE i \in 1..Len(content) : LineStart(content, i) = pos]
    ELSE NoParse

Max(S) == CHOOSE x \in S : \A y \in S : y <= x
Min(S) == CHOOSE x \in S : \A y \in S : x <= y

RECURSIVE SortAsc(_)
SortAsc(S) == IF S = {} THEN <<>> ELSE <<Min(S)>> \o SortAsc(S \ {Min(S)})

RECURSIVE SortDesc(_)
SortDesc(S) == IF S = {} THEN <<>> ELSE <<Max(S)>> \o SortDesc(S \ {Max(S)})

\* variant: the list comes out newest first
sorted_split_list_descending(dir) == SortDesc(DOMAIN dir)

\* the indices N of the N.log files of the directory, ascending
sorted_split_list(dir) == SortAsc(DOMAIN dir)

\* the records of a directory in segment-then-byte order
RECURSIVE ConcatSegments(_, _, _)
ConcatSegments(fs, list, i) ==
    IF i > Len(list) THEN << >>
    ELSE fs.inodes[fs.dir[list[i]]] \o ConcatSegments(fs, list, i + 1)

DiskLog(fs) == ConcatSegments(fs, sorted_split_list(fs.dir), 1)

\* OpenOptions::new().create(true).append(true).open(N.log): the file system
\* after the call; a missing file is created empty, an existing one is kept
OpenCreate(s, idx) ==
    IF idx \in DOMAIN s.dir THEN s
    ELSE [s EXCEPT !.inodes = Append(s.inodes, <<>>),
                   !.dir = [i \in DOMAIN s.dir \cup {idx} |->
                               IF i = idx THEN Len(s.inodes) + 1 ELSE s.dir[i]]]

\* variant: the delete loop stops one short and keeps the newest old segment
RemoveFiles_skippingLast(s, list) ==
    [s EXCEPT !.dir = [i \in DOMAIN s.dir \ {list[j] : j \in 1..(Len(list) - 1)} |-> s.dir[i]]]

\* fs::remove_file on every listed index: the names go, the inodes stay
\* readable through the handles that were opened on them
RemoveFiles(s, list) ==
    [s EXCEPT !.dir = [i \in DOMAIN s.dir \ {list[j] : j \in 1..Len(list)} |-> s.dir[i]]]

\* ---------------------------------------------------------------- KeyDir
\* HashMap<String, Option<MetaData>>: a key is missing, mapped to None, or
\* mapped to Some(MetaData{reader, pos, timestamp}); reader is the inode the
\* BufReader was opened on
NoneEntry == [some |-> FALSE, ino |-> 0, pos |-> 0, timestamp |-> 0]
MetaData(ino, pos, t) == [some |-> TRUE, ino |-> ino, pos |-> pos, timestamp |-> t]

KeydirInsert(keydir, k, e) ==
    [x \in DOMAIN keydir \cup {k} |-> IF x = k THEN e ELSE keydir[x]]
KeydirRemove(keydir, k) ==
    [x \in DOMAIN keydir \ {k} |-> keydir[x]]

\* if let Some(Some(meta)) = self.keydir.get_mut(&key)
HasMeta(s, k) == k \in DOMAIN s.keydir /\ s.keydir[k].some

\* ------------------------------------------------------------- results
SomeValue(v) == [kind |-> "Some", value |-> v]
Absent == [kind |-> "None", value |-> ""]
ErrFormat == [kind |-> "Err", value |-> "incorrect format log entry"]
Ok == "Ok"
KeyNotFound == "KeyNotFound"
IoError == "IoError"
SerdeError == "SerdeError"

\* ---------------------------------------------------------- write_to_log
\* The state after the append and the offset handed back to the caller.
write_to_log(s, entry) ==
    LET entry_size == EntrySize(entry)
        active_log_file_size == FileLen(s.inodes[s.writer.ino])
        offset == s.writer.pos
        s1 == [s EXCEPT !.total_log_size = @ + entry_size]
    IN  IF entry_size + active_log_file_size > MAX_SIZE
        THEN LET split == s1.current_split + 1
                 s2 == OpenCreate(s1, split)
                 ino == s2.dir[split]
                 written == Append(s2.inodes[ino], entry)
             IN  [s |-> [s2 EXCEPT !.current_split = split,
                                   !.active_log = split,
                                   !.inodes[ino] = written,
                                   !.writer = [ino |-> ino, pos |-> FileLen(written)]],
                  offset |-> offset]
        ELSE LET ino == s1.writer.ino
                 written == Append(s1.inodes[ino], entry)
             IN  [s |-> [s1 EXCEPT !.inodes[ino] = written,
                                   !.writer = [ino |-> ino, pos |-> FileLen(written)]],
                  offset |-> offset]

\* ------------------------------------------------------------ compaction
\* variant: every Put of a key with a live entry is copied, whatever its
\* timestamp
RECURSIVE CompactLines_anyTimestamp(_, _, _)
CompactLines_anyTimestamp(s, ino, j) ==
    IF j > Len(s.inodes[ino]) THEN s
    ELSE LET e == s.inodes[ino][j]
             rewrite == /\ e.tag = "Set"
                        /\ HasMeta(s, e.key)
         IN  CompactLines_anyTimestamp(IF rewrite THEN write_to_log(s, e).s ELSE s,
                                       ino, j + 1)

\* variant: Tombstones are copied forward too
RECURSIVE CompactLines_keepingTombstones(_, _, _)
CompactLines_keepingTombstones(s, ino, j) ==
    IF j > Len(s.inodes[ino]) THEN s
    ELSE LET e == s.inodes[ino][j]
             rewrite == \/ e.tag = "Remove"
                        \/ /\ e.tag = "Set"
                           /\ HasMeta(s, e.key)
                           /\ s.keydir[e.key].timestamp = e.timestamp
         IN  CompactLines_keepingTombstones(IF rewrite THEN write_to_log(s, e).s ELSE s,
                                            ino, j + 1)

\* the while loop over the lines of one old segment, from line j on
RECURSIVE CompactLines(_, _, _)
CompactLines(s, ino, j) ==
    IF j > Len(s.inodes[ino]) THEN s
    ELSE LET e == s.inodes[ino][j]
             rewrite == /\ e.tag = "Set"
                        /\ HasMeta(s, e.key)
                        /\ s.keydir[e.key].timestamp = e.timestamp
         IN  CompactLines(IF rewrite THEN write_to_log(s, e).s ELSE s, ino, j + 1)

RECURSIVE CompactSplits(_, _, _)
CompactSplits(s, list, i) ==
    IF i > Len(list) THEN s
    ELSE CompactSplits(CompactLines(s, s.dir[list[i]], 1), list, i + 1)

\* variant: the new segment is created but self.writer is left on the old one
compaction_keepingWriter(s) ==
    LET list == sorted_split_list(s.dir)
        s1 == OpenCreate(s, list[Len(list)] + 1)
        s2 == [s1 EXCEPT !.total_log_size = 0]
    IN  RemoveFiles(CompactSplits(s2, list, 1), list)

compaction(s) ==
    LET list == sorted_split_list(s.dir)
        s1 == OpenCreate(s, list[Len(list)] + 1)
        s2 == [s1 EXCEPT !.writer = [ino |-> s1.dir[list[Len(list)] + 1], pos |-> 0],
                         !.total_log_size = 0]
    IN  RemoveFiles(CompactSplits(s2, list, 1), list)

\* --------------------------------------------------------------------- get
get(s, key) ==
    IF HasMeta(s, key)
    THEN LET e == ReadEntryAt(s.inodes[s.keydir[key].ino], s.keydir[key].pos)
         IN  IF e.tag = "Set" THEN SomeValue(e.value) ELSE ErrFormat
    ELSE Absent

\* --------------------------------------------------------------------- set
\* [s: the store afterwards, res: the Result, compacted: compaction ran,
\*  before: the store when compaction was entered]
set(s, key, value, current_time) ==
    LET w == write_to_log(s, SetCommand(key, value, current_time))
        s1 == w.s
    IN  IF s1.active_log \notin DOMAIN s1.dir
        THEN [s |-> s1, res |-> IoError, compacted |-> FALSE, before |-> s1]
        ELSE LET s2 == [s1 EXCEPT !.keydir = KeydirInsert(@, key,
                                      MetaData(s1.dir[s1.active_log], w.offset, current_time))]
             IN  IF s2.total_log_size > COMPACTION_THRESHOLD
                 THEN [s |-> compaction(s2), res |-> Ok, compacted |-> TRUE, before |-> s2]
                 ELSE [s |-> s2, res |-> Ok, compacted |-> FALSE, before |-> s2]

\* ------------------------------------------------------------------ remove
\* variant: the tombstone is appended before the KeyDir is consulted
remove_appendingFirst(s, key, now) ==
    IF HasMeta(s, key)
    THEN LET e == ReadEntryAt(s.inodes[s.keydir[key].ino], s.keydir[key].pos)
         IN  IF e.tag = "Set"
             THEN LET s1 == write_to_log(s, RemoveCommand(e.key, e.value, now)).s
                      s2 == [s1 EXCEPT !.keydir = KeydirInsert(@, e.key, NoneEntry)]
                  IN  IF s2.total_log_size > COMPACTION_THRESHOLD
                      THEN [s |-> compaction(s2), res |-> Ok, compacted |-> TRUE, before |-> s2]
                      ELSE [s |-> s2, res |-> Ok, compacted |-> FALSE, before |-> s2]
             ELSE [s |-> s, res |-> Ok, compacted |-> FALSE, before |-> s]
    ELSE LET s1 == write_to_log(s, RemoveCommand(key, "", now)).s
         IN  [s |-> s1, res |-> KeyNotFound, compacted |-> FALSE, before |-> s1]

remove(s, key, now) ==
    IF HasMeta(s, key)
    THEN LET e == ReadEntryAt(s.inodes[s.keydir[key].ino], s.keydir[key].pos)
         IN  IF e.tag = "Set"
             THEN LET s1 == write_to_log(s, RemoveCommand(e.key, e.value, now)).s
                      s2 == [s1 EXCEPT !.keydir = KeydirInsert(@, e.key, NoneEntry)]
                  IN  IF s2.total_log_size > COMPACTION_THRESHOLD
                      THEN [s |-> compaction(s2), res |-> Ok, compacted |-> TRUE, before |-> s2]
                      ELSE [s |-> s2, res |-> Ok, compacted |-> FALSE, before |-> s2]
             ELSE [s |-> s, res |-> Ok, compacted |-> FALSE, before |-> s]
    ELSE [s |-> s, res |-> KeyNotFound, compacted |-> FALSE, before |-> s]

\* -------------------------------------------------------------------- open
\* replay of one segment from line j on; r is [s: the store under
\* construction, res: Ok until a line fails to deserialize]
RECURSIVE ReplayLines(_, _, _)
ReplayLines(r, ino, j) ==
    IF r.res # Ok \/ j > Len(r.s.inodes[ino]) THEN r
    ELSE LET s == r.s
             e == s.inodes[ino][j]
             offset == LineStart(s.inodes[ino], j)
             s1 == IF e.tag = "Set"
                   THEN [s EXCEPT !.keydir = KeydirInsert(@, e.key,
                                                 MetaData(ino, offset, e.timestamp)),
                                  !.total_log_size = @ + LineLen(e)]
                   ELSE [s EXCEPT !.keydir = KeydirRemove(@, e.key)]
         IN  IF e.tag \notin {"Set", "Remove"}
             THEN [r EXCEPT !.res = SerdeError]
             ELSE ReplayLines([r EXCEPT !.s = [s1 EXCEPT !.writer.pos =
                                                  LineStart(s.inodes[ino], j + 1)]],
                              ino, j + 1)

RECURSIVE ReplaySplits(_, _, _)
ReplaySplits(r, list, i) ==
    IF r.res # Ok \/ i > Len(list) THEN r
    ELSE ReplaySplits(ReplayLines(r, r.s.dir[list[i]], 1), list, i + 1)

\* variant: a fresh directory gets its first segment numbered 1
open_countingFromOne(fs) ==
    LET list == sorted_split_list(fs.dir)
        index == IF list = <<>> THEN 1 ELSE list[Len(list)]
        f == OpenCreate(fs, index)
        kvs == [inodes |-> f.inodes,
                dir |-> f.dir,
                keydir |-> << >>,
                writer |-> [ino |-> f.dir[index], pos |-> 0],
                current_split |-> index,
                active_log |-> index,
                total_log_size |-> 0]
    IN  ReplaySplits([s |-> kvs, res |-> Ok], list, 1)

\* fs: [inodes, dir], the directory the store is opened on;
\* the result is [s: the KvStore, res: Ok] or, with res an error, no store
open(fs) ==
    LET list == sorted_split_list(fs.dir)
        index == IF list = <<>> THEN 0 ELSE list[Len(list)]
        f == OpenCreate(fs, index)
        kvs == [inodes |-> f.inodes,
                dir |-> f.dir,
                keydir |-> << >>,
                writer |-> [ino |-> f.dir[index], pos |-> 0],
                current_split |-> index,
                active_log |-> index,
                total_log_size |-> 0]
    IN  ReplaySplits([s |-> kvs, res |-> Ok], list, 1)

\* ------------------------------------------------------------------- state
VARIABLES
    inodes,          \* inode number -> the lines of that file
    dir,             \* segment index N -> inode of N.log
    writer,          \* KvStore.writer: [ino, pos] of the append handle
    keydir,          \* KvStore.keydir
    current_split,   \* KvStore.current_split
    active_log,      \* KvStore.active_log, as the index N of N.log
    total_log_size,  \* KvStore.total_log_size
    clock,           \* SystemTime::now() in milliseconds
    last,            \* the last call on the handle and what it returned
    logical,         \* key -> value of its last successful set, or "" once removed
    failed,          \* some set or remove returned an error so far
    lastOn,          \* key -> the last call that touched it: "none", "set", "remove", "failed"
    nOps             \* calls made so far

vars == <<inodes, dir, writer, keydir, current_split, active_log, total_log_size,
          clock, last, logical, failed, lastOn, nOps>>

Store == [inodes |-> inodes, dir |-> dir, writer |-> writer, keydir |-> keydir,
          current_split |-> current_split, active_log |-> active_log,
          total_log_size |-> total_log_size]

Install(s) ==
    /\ inodes' = s.inodes
    /\ dir' = s.dir
    /\ writer' = s.writer
    /\ keydir' = s.keydir
    /\ current_split' = s.current_split
    /\ active_log' = s.active_log
    /\ total_log_size' = s.total_log_size

NoValue == ""

GetAll(s) == [k \in Keys |-> get(s, k)]

Call(op, k, v, res, got, r) ==
    [op |-> op, key |-> k, value |-> v, res |-> res, got |-> got,
     compacted |-> r.compacted,
     beforeGet |-> GetAll(r.before),
     beforeFiles |-> DOMAIN r.before.dir,
     beforeLog |-> IF r.compacted THEN DiskLog(r.before) ELSE << >>,
     beforeKeydir |-> IF r.compacted THEN r.before.keydir ELSE << >>]

NoCompaction(s) == [compacted |-> FALSE, before |-> s]

EmptyDirectory == [inodes |-> << >>, dir |-> << >>]

InitStore == open(EmptyDirectory).s

Init ==
    /\ inodes = InitStore.inodes
    /\ dir = InitStore.dir
    /\ writer = InitStore.writer
    /\ keydir = InitStore.keydir
    /\ current_split = InitStore.current_split
    /\ active_log = InitStore.active_log
    /\ total_log_size = InitStore.total_log_size
    /\ clock = 0
    /\ last = Call("open", "", "", Ok, Absent, NoCompaction(InitStore))
    /\ logical = [k \in Keys |-> NoValue]
    /\ failed = FALSE
    /\ lastOn = [k \in Keys |-> "none"]
    /\ nOps = 0

\* ----------------------------------------------------------------- actions
\* there is a KvStore to call: the process has not died and the last open,
\* if it is the last call, returned one
HandleOpen == last.op # "crash" /\ ~(last.op = "open" /\ last.res # Ok)

\* kvs.set(key, value)
Set(k, v) ==
    /\ nOps < MaxOps
    /\ HandleOpen
    /\ LET r == set(Store, k, v, clock)
       IN  /\ Install(r.s)
           /\ last' = Call("set", k, v, r.res, Absent, r)
           /\ logical' = IF r.res = Ok THEN [logical EXCEPT ![k] = v] ELSE logical
           /\ failed' = (failed \/ r.res # Ok)
           /\ lastOn' = [lastOn EXCEPT ![k] = IF r.res = Ok THEN "set" ELSE "failed"]
    /\ nOps' = nOps + 1
    /\ UNCHANGED clock

\* kvs.remove(key)
Remove(k) ==
    /\ nOps < MaxOps
    /\ HandleOpen
    /\ LET r == remove(Store, k, clock)
       IN  /\ Install(r.s)
           /\ last' = Call("remove", k, "", r.res, Absent, r)
           /\ logical' = IF r.res = Ok THEN [logical EXCEPT ![k] = NoValue] ELSE logical
           /\ failed' = (failed \/ r.res # Ok)
           /\ lastOn' = IF r.res = Ok THEN [lastOn EXCEPT ![k] = "remove"] ELSE lastOn
    /\ nOps' = nOps + 1
    /\ UNCHANGED clock

\* kvs.get(key): seeks and reads, changes nothing the store keeps
Get(k) ==
    /\ nOps < MaxOps
    /\ HandleOpen
    /\ last' = Call("get", k, "", Ok, get(Store, k), NoCompaction(Store))
    /\ nOps' = nOps + 1
    /\ UNCHANGED <<inodes, dir, writer, keydir, current_split, active_log,
                   total_log_size, clock, logical, failed, lastOn>>

\* the handle is dropped and KvStore::open runs on the same directory
Reopen ==
    /\ nOps < MaxOps
    /\ LET r == open([inodes |-> inodes, dir |-> dir])
       IN  /\ Install(r.s)
           /\ last' = Call("open", "", "", r.res, Absent, NoCompaction(r.s))
    /\ nOps' = nOps + 1
    /\ UNCHANGED <<clock, logical, failed, lastOn>>

\* a millisecond passes between two calls
Tick ==
    /\ clock < MaxTime
    /\ clock' = clock + 1
    /\ UNCHANGED <<inodes, dir, writer, keydir, current_split, active_log,
                   total_log_size, last, logical, failed, lastOn, nOps>>

Next ==
    \/ \E k \in Keys, v \in Values : Set(k, v)
    \/ \E k \in Keys : Remove(k)
    \/ \E k \in Keys : Get(k)
    \/ Reopen
    \/ Tick

Spec == Init /\ [][Next]_vars

\* The process dies inside set(k, v), while write_to_log is writing the line:
\* the segment the append went to ends in a torn line and the handle is gone.
Crash(k, v) ==
    /\ nOps < MaxOps
    /\ HandleOpen
    /\ LET w == write_to_log(Store, SetCommand(k, v, clock)).s
           ino == w.writer.ino
           lines == w.inodes[ino]
           torn == [w EXCEPT !.inodes[ino] =
                       Append(SubSeq(lines, 1, Len(lines) - 1), TornCommand(k, v, clock))]
       IN  /\ Install(torn)
           /\ last' = Call("crash", k, v, "Crashed", Absent, NoCompaction(torn))
    /\ failed' = TRUE
    /\ lastOn' = [lastOn EXCEPT ![k] = "failed"]
    /\ nOps' = nOps + 1
    /\ UNCHANGED <<clock, logical>>

NextCrash ==
    \/ Next
    \/ \E k \in Keys, v \in Values : Crash(k, v)

SpecCrash == Init /\ [][NextCrash]_vars

\* The same store further into its life: the handle has made three calls,
\* set("a", B), set("b", m) and remove("a"), the last of which ran a
\* compaction; the calls of Next follow from there.
CompactedRun ==
    LET r1 == set(InitStore, "a", "B", 0)
        r2 == set(r1.s, "b", "m", 0)
    IN  remove(r2.s, "a", 0)

InitCompacted ==
    /\ inodes = CompactedRun.s.inodes
    /\ dir = CompactedRun.s.dir
    /\ writer = CompactedRun.s.writer
    /\ keydir = CompactedRun.s.keydir
    /\ current_split = CompactedRun.s.current_split
    /\ active_log = CompactedRun.s.active_log
    /\ total_log_size = CompactedRun.s.total_log_size
    /\ clock = 0
    /\ last = Call("remove", "a", "", CompactedRun.res, Absent, CompactedRun)
    /\ logical = [k \in Keys |-> IF k = "b" THEN "m" ELSE NoValue]
    /\ failed = FALSE
    /\ lastOn = [k \in Keys |-> IF k = "b" THEN "set" ELSE "remove"]
    /\ nOps = 0

SpecCompacted == InitCompacted /\ [][Next]_vars

TypeOK ==
    /\ nOps \in 0..MaxOps
    /\ clock \in 0..MaxTime
    /\ writer.ino \in 1..Len(inodes)
    /\ \A i \in DOMAIN dir : dir[i] \in 1..Len(inodes)
    /\ DOMAIN keydir \subseteq Keys

\* what get answers for a key whose logical value is v
Expected(v) == IF v = NoValue THEN Absent ELSE SomeValue(v)

\* the directory as it is on disk, and the store a fresh open of it gives
Disk == [inodes |-> inodes, dir |-> dir]
Reopened == open(Disk).s

\* -------------------------------------------------------------------------
\* C1  Round-trip: when set(k, v) returned success, a get(k) issued right
\* after it on the same handle returns Some(v).
C1_RoundTrip ==
    (last.op = "set" /\ last.res = Ok) => get(Store, last.key) = SomeValue(last.value)

\* C2  Durability across reopen: after a run of successful sets and removes,
\* a store reopened on the directory answers every get with the value of the
\* key's last set, or absent when the key was removed after it.
C2_DurableAcrossReopen ==
    (last.op = "open" /\ ~failed) =>
        \A k \in Keys : get(Store, k) = Expected(logical[k])

\* C3  Tombstone visibility: after remove(k) returned success, get(k) is
\* absent and a second remove(k) fails with KeyNotFound.
C3_TombstoneVisible ==
    (last.op = "remove" /\ last.res = Ok) =>
        /\ get(Store, last.key) = Absent
        /\ remove(Store, last.key, clock).res = KeyNotFound

\* C4  Compaction preserves live keys: a key whose live value is v when a
\* compaction runs is answered with Some(v) by get on the same handle once
\* the compaction has completed.
C4_CompactionPreservesLive ==
    last.compacted =>
        \A k \in Keys : logical[k] # NoValue => get(Store, k) = SomeValue(logical[k])

\* what compaction itself does to the answers: a get that answered Some(v)
\* when compaction was entered answers Some(v) after it (the readers of the
\* KeyDir stay open on the unlinked segments)
CompactionKeepsAnswers ==
    last.compacted =>
        \A k \in Keys : last.beforeGet[k].kind = "Some" => get(Store, k) = last.beforeGet[k]

\* C5  Post-compaction pointer validity: right after a compaction every
\* KeyDir entry refers to a segment file that is still on disk, at the
\* offset where a Put record of that key starts.
OnDisk(ino) == \E i \in DOMAIN dir : dir[i] = ino

C5_PointersValidAfterCompaction ==
    last.compacted =>
        \A k \in Keys : HasMeta(Store, k) =>
            /\ OnDisk(keydir[k].ino)
            /\ ReadEntryAt(inodes[keydir[k].ino], keydir[k].pos).tag = "Set"
            /\ ReadEntryAt(inodes[keydir[k].ino], keydir[k].pos).key = k

\* C6  Rotation offset correctness: the offset write_to_log returns is the
\* offset at which the appended record starts in the segment it was written
\* to, whether or not the append rotated.
C6_OffsetOfAppendedRecord ==
    \A k \in Keys, v \in Values :
        LET w == write_to_log(Store, SetCommand(k, v, clock))
            segment == w.s.inodes[w.s.writer.ino]
        IN  w.offset = LineStart(segment, Len(segment))

\* C7  Compaction keeps removed keys absent: a key whose last call before the
\* compaction was a successful remove is absent after it, on the same handle
\* and after a reopen.
C7_RemovedStayAbsent ==
    last.compacted =>
        \A k \in Keys : lastOn[k] = "remove" =>
            /\ get(Store, k) = Absent
            /\ get(Reopened, k) = Absent

\* C8  Compaction removes the old segments: after a compaction no segment
\* index that was on disk when it began is on disk, and every index on disk
\* is greater than all of them.
C8_OldSegmentsGone ==
    last.compacted =>
        /\ last.beforeFiles \cap DOMAIN dir = {}
        /\ \A i \in DOMAIN dir : \A j \in last.beforeFiles : i > j

C8_Witness ==
    /\ last.compacted
    /\ Cardinality(last.beforeFiles) > 1
    /\ DOMAIN dir # {}

\* C9  remove on an absent key is a pure error: when the KeyDir has no live
\* entry for k, remove(k) fails with KeyNotFound, appends nothing, creates
\* and deletes no segment, and leaves KeyDir and size counter as they were.
C9_RemoveAbsentIsPureError ==
    [][\A k \in Keys :
          (nOps' = nOps + 1 /\ last'.op = "remove" /\ last'.key = k /\ ~HasMeta(Store, k))
              => /\ last'.res = KeyNotFound
                 /\ UNCHANGED <<inodes, dir, writer, keydir, current_split,
                                active_log, total_log_size>>]_vars

C9_Witness ==
    /\ last.op = "remove"
    /\ last.res = KeyNotFound
    /\ \E i \in DOMAIN dir : inodes[dir[i]] # <<>>

\* C10  set always succeeds: with no fault of the file system, every set
\* returns success, the first one after a compaction included.
C10_SetSucceeds ==
    last.op = "set" => last.res = Ok

\* -------------------------------------------------------------------------
\* the segment index the append handle is open on
ActiveIndexes(s) == {i \in DOMAIN s.dir : s.dir[i] = s.writer.ino}

\* C15  Active segment is the newest: the one segment that receives appends
\* is the segment with the highest index on disk.
C15_ActiveIsNewest ==
    ActiveIndexes(Store) = {Max(DOMAIN dir)}

\* C18  Rotation policy: an append whose size added to the active segment's
\* size exceeds MAX_SIZE makes a segment that did not exist, with the active
\* index + 1, active and lands whole in it; any other append lands at the end
\* of the active segment.
C18_RotationPolicy ==
    \A k \in Keys, v \in Values :
        LET e == SetCommand(k, v, clock)
            w == write_to_log(Store, e).s
            active == CHOOSE i \in ActiveIndexes(Store) : TRUE
        IN  IF EntrySize(e) + FileLen(inodes[writer.ino]) > MAX_SIZE
            THEN /\ active + 1 \notin DOMAIN dir
                 /\ ActiveIndexes(w) = {active + 1}
                 /\ w.inodes[w.writer.ino] = <<e>>
            ELSE /\ w.writer.ino = writer.ino
                 /\ w.inodes[writer.ino] = Append(inodes[writer.ino], e)
                 /\ w.dir = dir

\* the most recent record of key k in a log, or NoParse when it has none
LastRecordOf(log, k) ==
    LET at == {n \in 1..Len(log) : log[n].key = k}
    IN  IF at = {} THEN NoParse ELSE log[Max(at)]

PutsOf(fs, k) ==
    {p \in UNION {{<<i, j>> : j \in 1..Len(fs.inodes[fs.dir[i]])} : i \in DOMAIN fs.dir} :
        /\ fs.inodes[fs.dir[p[1]]][p[2]].tag = "Set"
        /\ fs.inodes[fs.dir[p[1]]][p[2]].key = k}

Later(p, q) == p[1] > q[1] \/ (p[1] = q[1] /\ p[2] > q[2])

\* the KeyDir entry of k is the place, in a segment on disk, of the last Put
\* of k in segment-then-byte order, with that record's timestamp
PointsAtLastPut(k) ==
    \E p \in PutsOf(Disk, k) :
        /\ \A q \in PutsOf(Disk, k) : ~Later(q, p)
        /\ keydir[k].ino = dir[p[1]]
        /\ keydir[k].pos = LineStart(inodes[dir[p[1]]], p[2])
        /\ keydir[k].timestamp = inodes[dir[p[1]]][p[2]].timestamp

\* C17  Replay re-establishes pointers: right after open every KeyDir entry
\* refers to a segment on disk, at the offset where the last Put of its key
\* (segments in ascending index order, then byte order) starts, and carries
\* that record's timestamp.
C17_ReplayPointers ==
    (last.op = "open" /\ last.res = Ok) =>
        \A k \in DOMAIN keydir : keydir[k].some /\ PointsAtLastPut(k)

C17_Witness ==
    /\ last.op = "open"
    /\ last.res = Ok
    /\ \E k \in DOMAIN keydir :
          /\ PointsAtLastPut(k)
          /\ keydir[k].pos > 0
          /\ \E p, q \in PutsOf(Disk, k) : p[1] # q[1]

\* C12  Writes to one key do not disturb other keys: a successful set(k, v)
\* or remove(k) leaves the answer of get(k2) unchanged for every other key
\* k2, and after a successful set(k, v) get(k) answers the value just set.
C12_OtherKeysUndisturbed ==
    [][(nOps' = nOps + 1 /\ last'.op \in {"set", "remove"} /\ last'.res = Ok) =>
          /\ \A k2 \in Keys \ {last'.key} : get(Store', k2) = get(Store, k2)
          /\ last'.op = "set" => get(Store', last'.key) = SomeValue(last'.value)]_vars

\* C16  Compaction copies forward before deleting: a store reopened right
\* after a compaction answers every key that was live before it with the same
\* value, also when the rewrite pass rotated.
C16_CopiedForward ==
    last.compacted =>
        \A k \in Keys : logical[k] # NoValue => get(Reopened, k) = SomeValue(logical[k])

\* the liveness test of compaction, on the KeyDir it ran with
LiveAtCompaction(e) ==
    /\ e.tag = "Set"
    /\ e.key \in DOMAIN last.beforeKeydir
    /\ last.beforeKeydir[e.key].some
    /\ last.beforeKeydir[e.key].timestamp = e.timestamp

RECURSIVE SumEntrySize(_)
SumEntrySize(log) ==
    IF log = << >> THEN 0 ELSE EntrySize(Head(log)) + SumEntrySize(Tail(log))

\* C19  Compaction liveness test: the records on disk after a compaction are,
\* in order, the Put records of the old segments whose key has a live KeyDir
\* entry with the record's timestamp; no Tombstone is among them; the size
\* counter, reset before the rewrite pass, counts exactly those records.
C19_LivenessTest ==
    last.compacted =>
        /\ DiskLog(Disk) = SelectSeq(last.beforeLog, LiveAtCompaction)
        /\ total_log_size = SumEntrySize(DiskLog(Disk))

C19_Witness ==
    /\ last.compacted
    /\ DiskLog(Disk) # << >>
    /\ \E n \in 1..Len(last.beforeLog) : last.beforeLog[n].tag = "Remove"
    /\ \E n \in 1..Len(last.beforeLog) :
          /\ last.beforeLog[n].tag = "Set"
          /\ HasMeta(Store, last.beforeLog[n].key)
          /\ ~LiveAtCompaction(last.beforeLog[n])

\* the records of key k in a log
RecordsOf(log, k) == SelectSeq(log, LAMBDA e : e.key = k)

\* C20 as stated: after a compaction the segments hold exactly one Put for
\* each live key and no record of any other key.
C20_NoSupersededRecords ==
    last.compacted =>
        \A k \in Keys :
            IF HasMeta(Store, k)
            THEN /\ Len(RecordsOf(DiskLog(Disk), k)) = 1
                 /\ RecordsOf(DiskLog(Disk), k)[1].tag = "Set"
            ELSE RecordsOf(DiskLog(Disk), k) = << >>

\* C20 amended: after a compaction the segments hold, for each live key, the
\* Put records of that key that carried the timestamp of its KeyDir entry
\* (at least one; exactly one unless several writes of the key got that same
\* timestamp) and no record of any other key.
C20_OnlyRecordsWithLiveTimestamp ==
    last.compacted =>
        \A k \in Keys :
            LET now == RecordsOf(DiskLog(Disk), k)
                sameStamp == SelectSeq(RecordsOf(last.beforeLog, k), LiveAtCompaction)
            IN  IF HasMeta(Store, k)
                THEN /\ Len(now) >= 1
                     /\ Len(now) = Len(sameStamp)
                     /\ \A n \in 1..Len(now) :
                           /\ now[n].tag = "Set"
                           /\ now[n].timestamp = keydir[k].timestamp
                ELSE now = << >>

C20_Witness ==
    /\ last.compacted
    /\ \E k \in Keys :
          /\ HasMeta(Store, k)
          /\ Len(RecordsOf(DiskLog(Disk), k)) = 1
          /\ Len(RecordsOf(last.beforeLog, k)) > 1
    /\ \E k \in Keys :
          /\ ~HasMeta(Store, k)
          /\ RecordsOf(last.beforeLog, k) # << >>

\* the directory with the torn lines left out
Complete(fs) ==
    [fs EXCEPT !.inodes = [n \in 1..Len(fs.inodes) |->
                              SelectSeq(fs.inodes[n], LAMBDA e : e.tag # "Torn")]]

TornTail == \E i \in DOMAIN dir :
               /\ inodes[dir[i]] # << >>
               /\ inodes[dir[i]][Len(inodes[dir[i]])].tag = "Torn"

\* C11  Replay tolerates a torn tail: when the last line of a segment is
\* partial, open succeeds and the KeyDir it builds is the one the complete
\* records before that line give.
C11_TornTailTolerated ==
    (last.op = "open" /\ TornTail) =>
        /\ last.res = Ok
        /\ keydir = open(Complete(Disk)).s.keydir

\* C13  Empty store: open on a directory without segment files succeeds,
\* makes a fresh segment 0 the active one, leaves the KeyDir empty, and get
\* answers absent for every key.
C13_EmptyStore ==
    (nOps = 0 /\ last.op = "open") =>
        /\ last.res = Ok
        /\ DOMAIN dir = {0}
        /\ inodes[dir[0]] = << >>
        /\ ActiveIndexes(Store) = {0}
        /\ current_split = 0
        /\ keydir = << >>
        /\ \A x \in Keys : get(Store, x) = Absent

C13_Witness ==
    /\ nOps = 0
    /\ last.op = "open"
    /\ last.res = Ok
    /\ get(Store, "a") = Absent

C15_Witness ==
    /\ last.compacted
    /\ Cardinality(DOMAIN dir) > 1
    /\ current_split = Max(DOMAIN dir)
    /\ ActiveIndexes(Store) = {Max(DOMAIN dir)}

====
